---- MODULE Spec2Model ----
(***************************************************************************)
(* State-machine model of MoistureBalanceEMPDManager.cc (EnergyPlus):      *)
(* the per-surface EMPD moisture state, its lifecycle                      *)
(* (InitMoistureBalanceEMPD, UpdateMoistureBalanceEMPD,                    *)
(* CloseMoistureBalanceEMPD) and the timestep advance                      *)
(* CalcMoistureBalanceEMPD.                                                *)
(*                                                                         *)
(* Real64 quantities are fixed-point integers:                             *)
(*   vapor density, humidity ratio   1e-5  (kg/m3, kg/kg)                  *)
(*   relative humidity               1e-4                                  *)
(*   pressure                        Pa                                    *)
(*   depth, thickness                1e-4 m                                *)
(*   diffusivity                     1e-11 m2/s                            *)
(*   mass-transfer resistance        s/m                                   *)
(*   mass-transfer coefficient       1e-9 m/s                              *)
(*   mass flux                       1e-10 kg/m2-s                         *)
(*   sorption slope dU/dRH           1e-6                                  *)
(*   latent heat flux                1e-4 W/m2                             *)
(* Divisions round to nearest.  The IEEE-754 results of the divisions the  *)
(* code does not guard (x/0, 0/0) are the values PosInf, NegInf and NaN,   *)
(* which propagate through the arithmetic as in Real64.                    *)
(***************************************************************************)
EXTENDS Integers, Sequences, FiniteSets, TLC

(***************************************************************************)
(* Bounds of the model.                                                    *)
(***************************************************************************)
MaxCalls == 3
MaxEnvs == 2

(***************************************************************************)
(* Real64 arithmetic.                                                      *)
(***************************************************************************)
PosInf == 2 * 1000000000
NegInf == 0 - PosInf
NaN == PosInf + 1

IsNaN(x) == x = NaN
IsInf(x) == x = PosInf \/ x = NegInf
IsFin(x) == ~IsNaN(x) /\ ~IsInf(x)

Sgn(x) == IF x > 0 THEN 1 ELSE IF x < 0 THEN -1 ELSE 0

\* round(a / b) for finite a and finite b > 0
RDiv(a, b) == (a + (b \div 2)) \div b

XNeg(x) == IF IsNaN(x) THEN NaN
           ELSE IF x = PosInf THEN NegInf
           ELSE IF x = NegInf THEN PosInf
           ELSE 0 - x

XAdd(x, y) == IF IsNaN(x) \/ IsNaN(y) THEN NaN
              ELSE IF IsInf(x) /\ IsInf(y) THEN (IF x = y THEN x ELSE NaN)
              ELSE IF IsInf(x) THEN x
              ELSE IF IsInf(y) THEN y
              ELSE x + y

XSub(x, y) == XAdd(x, XNeg(y))

\* x * y / scale, scale a positive power of ten that aligns the units
XMul(x, y, scale) ==
    IF IsNaN(x) \/ IsNaN(y) THEN NaN
    ELSE IF IsInf(x) \/ IsInf(y)
         THEN (IF x = 0 \/ y = 0 THEN NaN
               ELSE IF Sgn(x) * Sgn(y) > 0 THEN PosInf ELSE NegInf)
    ELSE IF x * y >= 0 THEN RDiv(x * y, scale)
    ELSE 0 - RDiv(0 - (x * y), scale)

\* x * scale / y; a zero divisor is +0.0 (every divisor of the code is a sum
\* or product of non-negative terms when it vanishes)
XDiv(x, y, scale) ==
    IF IsNaN(x) \/ IsNaN(y) THEN NaN
    ELSE IF IsInf(x) /\ IsInf(y) THEN NaN
    ELSE IF IsInf(x) THEN (IF Sgn(x) * Sgn(y) >= 0 THEN PosInf ELSE NegInf)
    ELSE IF IsInf(y) THEN 0
    ELSE IF y = 0 THEN (IF x = 0 THEN NaN ELSE IF x > 0 THEN PosInf ELSE NegInf)
    ELSE IF y > 0 THEN (IF x >= 0 THEN RDiv(x * scale, y)
                        ELSE 0 - RDiv((0 - x) * scale, y))
    ELSE (IF x >= 0 THEN 0 - RDiv(x * scale, 0 - y)
          ELSE RDiv((0 - x) * scale, 0 - y))

\* std::pow( x, n ) for a relative humidity x (1e-4) and an integer n >= 0
RECURSIVE PowRH(_, _)
PowRH(x, n) == IF n = 0 THEN 10000
               ELSE XMul(PowRH(x, n - 1), x, 10000)

(***************************************************************************)
(* Data the module reads from its collaborators.                           *)
(***************************************************************************)
TotSurfaces == 2
NumOfZones == 1
SurfNums == 1..TotSurfaces
ZoneNums == 1..NumOfZones

KelvinConv == 27315          \* 273.15 K, in 1e-2 K
OutBaroPress == 101325       \* Pa
Lam == 2500000               \* heat of vaporization, J/kg
TimeStepZoneSec == 900       \* TimeStepZone * 3600.0 with TimeStepZone = 0.25 h

\* Material( MatNum ): 1 carries no EMPD properties (EMPDmu = 0), 2 is the
\* moisture-active material without deep layer, 3 has a deep layer and a
\* coating.  MoistACoeff, MoistCCoeff in 1e-4; depths in 1e-4 m.
Material ==
    << [EMPDmu |-> 0, MoistACoeff |-> 0, MoistBCoeff |-> 0, MoistCCoeff |-> 0,
        MoistDCoeff |-> 0, EMPDSurfaceDepth |-> 0, EMPDDeepDepth |-> 0,
        EMPDCoatingThickness |-> 0, EMPDmuCoating |-> 0, Density |-> 800],
       [EMPDmu |-> 200, MoistACoeff |-> 200, MoistBCoeff |-> 2, MoistCCoeff |-> 100,
        MoistDCoeff |-> 3, EMPDSurfaceDepth |-> 50, EMPDDeepDepth |-> 0,
        EMPDCoatingThickness |-> 0, EMPDmuCoating |-> 0, Density |-> 800],
       [EMPDmu |-> 200, MoistACoeff |-> 200, MoistBCoeff |-> 2, MoistCCoeff |-> 100,
        MoistDCoeff |-> 3, EMPDSurfaceDepth |-> 50, EMPDDeepDepth |-> 200,
        EMPDCoatingThickness |-> 1, EMPDmuCoating |-> 100, Density |-> 800] >>

\* Construct( ConstrNum ): the inside layer is LayerPoint( TotLayers )
Construct ==
    << [TotLayers |-> 1, LayerPoint |-> <<1>>],
       [TotLayers |-> 2, LayerPoint |-> <<1, 2>>],
       [TotLayers |-> 2, LayerPoint |-> <<1, 3>>] >>

\* Surface( SurfNum ) of a model: its flag, construction and zone.  Surface 1
\* is of any kind; the other surfaces are heat-transfer surfaces with the
\* deep-layer material.
SurfaceKinds(SurfNum) ==
    { [HeatTransSurf |-> FALSE, Construction |-> 1, Zone |-> ((SurfNum - 1) % NumOfZones) + 1]
        : c \in IF SurfNum = 1 THEN {1} ELSE {} }
    \cup { [HeatTransSurf |-> TRUE, Construction |-> c, Zone |-> ((SurfNum - 1) % NumOfZones) + 1]
             : c \in IF SurfNum = 1 THEN 1..Len(Construct) ELSE {Len(Construct)} }

\* values the host supplies
\* zone air: ZoneAirHumRat (kg/kg, 1e-5) and the RhoVaporAirIn (kg/m3, 1e-5)
\* of the surfaces of the zone
ZoneConditions ==
    { [w |-> 800, rho |-> 900], [w |-> 0, rho |-> 1100] }
HMassConvInFD == [SurfNum \in SurfNums |-> 2500]   \* m/s, 1e-6
\* contents of allocated, unassigned Real64 entries: whatever the memory
\* holds, the same in every array (0) or different from array to array
UninitPatterns == {0, 1}

(***************************************************************************)
(* Closed-form terms of CalcMoistureBalanceEMPD.                           *)
(***************************************************************************)
\* 461.52 * ( Taver + KelvinConv ), J/kg
GasT(Taver) == RDiv(46152 * (Taver * 100 + KelvinConv), 10000)

\* std::exp( 23.7093 - 4111.0 / ( Taver + 237.7 ) ), Pa
ExpCurve(Taver) ==
    CASE Taver = 10 -> 1227
      [] Taver = 20 -> 2337
      [] Taver = 22 -> 2643
      [] Taver = 24 -> 2982

\* pow( Taver + KelvinConv, 0.81 ), 1e-2
Pow081(Taver) ==
    CASE Taver = 10 -> 9686
      [] Taver = 20 -> 9962
      [] Taver = 22 -> 10017
      [] Taver = 24 -> 10072

\* 2.0e-7 * pow( Taver + KelvinConv, 0.81 ) / OutBaroPress, the vapor
\* diffusivity in air, 1e-14 kg/m-s-Pa
VaporDiffAir(Taver) == RDiv(Pow081(Taver) * 200000, OutBaroPress)

\* EMPDdiffusivity, 1e-11 m2/s
EMPDdiffusivityFn(material, Taver) ==
    RDiv(VaporDiffAir(Taver) * RDiv(GasT(Taver), 100), 10 * material.EMPDmu)

\* dU_dRH, the slope of the sorption curve at RHaver, 1e-6
SorptionSlope(material, RHaver) ==
    XAdd(XMul(material.MoistACoeff * material.MoistBCoeff,
              PowRH(RHaver, material.MoistBCoeff - 1), 100),
         XMul(material.MoistCCoeff * material.MoistCCoeff * material.MoistDCoeff,
              PowRH(RHaver, material.MoistDCoeff - 1), 1000000))

\* Rcoating, s/m
RcoatingFn(material, Taver) ==
    IF material.EMPDmuCoating <= 0 THEN 0
    ELSE RDiv(material.EMPDCoatingThickness * material.EMPDmuCoating * OutBaroPress,
              10 * RDiv(Pow081(Taver) * GasT(Taver), 500000))

\* hm_surf_layer, 1e-9 m/s
HmSurfLayer(material, EMPDdiffusivity, h_mass_conv_in_fd, Rcoating) ==
    XDiv(1, XAdd(XAdd(XDiv(5 * material.EMPDSurfaceDepth, EMPDdiffusivity, 1000000),
                      XDiv(1, h_mass_conv_in_fd, 1000000)),
                 Rcoating),
         1000000000)

\* hm_deep_layer, 1e-9 m/s
HmDeepLayer(material, EMPDdiffusivity) ==
    IF material.EMPDDeepDepth <= 0 THEN 0
    ELSE XDiv(2 * EMPDdiffusivity,
              material.EMPDDeepDepth + material.EMPDSurfaceDepth, 100)

\* RSurfaceLayer, s/m
RSurfaceLayerFn(hm_surf_layer, h_mass_conv_in_fd, Rcoating) ==
    XSub(XSub(XDiv(1, hm_surf_layer, 1000000000), XDiv(1, h_mass_conv_in_fd, 1000000)),
         Rcoating)

\* a variant with the difference reversed
FluxReversed(hm, rv1, rv2) == XMul(hm, XSub(rv2, rv1), 10000)

\* hm * ( rv1 - rv2 ), a mass flux
Flux(hm, rv1, rv2) == XMul(hm, XSub(rv1, rv2), 10000)

\* RH_old + TimeStepZone * 3600.0 * ( flux / ( Density * depth * dU_dRH ) )
EulerRH(RH_old, flux, material, depth, dU_dRH) ==
    XAdd(RH_old,
         XDiv(XMul(TimeStepZoneSec, flux, 1),
              XMul(XMul(material.Density, depth, 100), dU_dRH, 1), 100))

(***************************************************************************)
(* Psychrometrics: conversions supplied by a collaborator.                 *)
(***************************************************************************)
\* saturation pressure, Pa
PsyPsatFnTemp(Tdb) ==
    CASE Tdb = 10 -> 1226
      [] Tdb = 20 -> 2333
      [] Tdb = 22 -> 2639
      [] Tdb = 24 -> 2978

\* relative humidity (1e-4) of a vapor density (1e-5)
PsyRhFnTdbRhov(Tdb, Rhovapor) ==
    XDiv(XMul(Rhovapor, GasT(Tdb), 1), 10 * PsyPsatFnTemp(Tdb), 1)

\* vapor density (1e-5) of a relative humidity (1e-4)
PsyRhovFnTdbRh(Tdb, RH) ==
    XDiv(XMul(RH, 10 * PsyPsatFnTemp(Tdb), 1), GasT(Tdb), 1)

\* vapor density (1e-5) of a humidity ratio (1e-5) at pressure PB
PsyRhovFnTdbWPb(Tdb, dW, PB) ==
    RDiv(RDiv(dW * PB, dW + 62198) * 100000, GasT(Tdb))

(***************************************************************************)
(* State.                                                                  *)
(***************************************************************************)
VARIABLES
    Surface,                \* DataSurfaces::Surface, fixed after input
    ZoneAirHumRat,          \* DataHeatBalFanSys::ZoneAirHumRat( ZoneNum )
    RhoVaporAirIn,          \* DataMoistureBalance::RhoVaporAirIn( SurfNum )
    BeginEnvrnFlag,         \* DataGlobals::BeginEnvrnFlag
    RVSurfaceOld, RVSurface, HeatFluxLatent,
    RhoVapEMPD, WSurfEMPD, RHEMPD,
    RVSurfLayer, RVSurfLayerOld, RVDeepLayer, RVdeepOld, RVwall,
    HMSurfaceLayer, MassFluxSurfaceLayer, MassFluxDeepLayer, MassFluxZone,
    InitEnvrnFlag,          \* static of InitMoistureBalanceEMPD
    OneTimeFlag,            \* static of CalcMoistureBalanceEMPD
    envNum,                 \* environments the host has begun
    closed,                 \* CloseMoistureBalanceEMPD has run
    unallocatedAccess,      \* a call has indexed an array that is not allocated
    numCalls,               \* CalcMoistureBalanceEMPD calls made
    hist,                   \* counts of what has run, per environment and per run
    last                    \* the call that produced this state, its locals and
                            \* the arrays before it

inputs == <<Surface, ZoneAirHumRat, RhoVaporAirIn, BeginEnvrnFlag>>
arrays == <<RVSurfaceOld, RVSurface, HeatFluxLatent, RhoVapEMPD, WSurfEMPD, RHEMPD,
            RVSurfLayer, RVSurfLayerOld, RVDeepLayer, RVdeepOld, RVwall,
            HMSurfaceLayer, MassFluxSurfaceLayer, MassFluxDeepLayer, MassFluxZone>>
vars == <<inputs, arrays, InitEnvrnFlag, OneTimeFlag, envNum, closed, unallocatedAccess,
          numCalls, hist, last>>

\* the fifteen per-surface arrays as one value
Arrays ==
    [RVSurfaceOld |-> RVSurfaceOld, RVSurface |-> RVSurface,
     HeatFluxLatent |-> HeatFluxLatent, RhoVapEMPD |-> RhoVapEMPD,
     WSurfEMPD |-> WSurfEMPD, RHEMPD |-> RHEMPD,
     RVSurfLayer |-> RVSurfLayer, RVSurfLayerOld |-> RVSurfLayerOld,
     RVDeepLayer |-> RVDeepLayer, RVdeepOld |-> RVdeepOld, RVwall |-> RVwall,
     HMSurfaceLayer |-> HMSurfaceLayer, MassFluxSurfaceLayer |-> MassFluxSurfaceLayer,
     MassFluxDeepLayer |-> MassFluxDeepLayer, MassFluxZone |-> MassFluxZone]

ArrayNames == DOMAIN Arrays

SetArrays(A) ==
    /\ RVSurfaceOld' = A.RVSurfaceOld
    /\ RVSurface' = A.RVSurface
    /\ HeatFluxLatent' = A.HeatFluxLatent
    /\ RhoVapEMPD' = A.RhoVapEMPD
    /\ WSurfEMPD' = A.WSurfEMPD
    /\ RHEMPD' = A.RHEMPD
    /\ RVSurfLayer' = A.RVSurfLayer
    /\ RVSurfLayerOld' = A.RVSurfLayerOld
    /\ RVDeepLayer' = A.RVDeepLayer
    /\ RVdeepOld' = A.RVdeepOld
    /\ RVwall' = A.RVwall
    /\ HMSurfaceLayer' = A.HMSurfaceLayer
    /\ MassFluxSurfaceLayer' = A.MassFluxSurfaceLayer
    /\ MassFluxDeepLayer' = A.MassFluxDeepLayer
    /\ MassFluxZone' = A.MassFluxZone

\* an Array1D is unallocated (size 0) or holds TotSurfaces entries
Unallocated == << >>
Allocate(v) == [SurfNum \in SurfNums |-> v]
ArrayIndex ==
    [RVSurfaceOld |-> 1, RVSurface |-> 2, HeatFluxLatent |-> 3, RhoVapEMPD |-> 4,
     WSurfEMPD |-> 5, RHEMPD |-> 6, RVSurfLayer |-> 7, RVSurfLayerOld |-> 8,
     RVDeepLayer |-> 9, RVdeepOld |-> 10, RVwall |-> 11, HMSurfaceLayer |-> 12,
     MassFluxSurfaceLayer |-> 13, MassFluxDeepLayer |-> 14, MassFluxZone |-> 15]
Uninit(pattern, name) == pattern * (700 + ArrayIndex[name])
Allocated(a) == Len(a) > 0
\* every array is allocated, with an entry for every surface
AllAllocated(A) == \A n \in ArrayNames : Len(A[n]) = TotSurfaces
Fill(a, v) == [SurfNum \in DOMAIN a |-> v]

\* the inside-layer material of a surface
InsideMaterial(SurfNum) ==
    LET ConstrNum == Surface[SurfNum].Construction
        MatNum == Construct[ConstrNum].LayerPoint[Construct[ConstrNum].TotLayers]
    IN Material[MatNum]

(***************************************************************************)
(* InitMoistureBalanceEMPD                                                 *)
(***************************************************************************)
\* the seeding loop skips a surface that is not a heat-transfer surface
SeedsSurface(SurfNum) == Surface[SurfNum].HeatTransSurf

\* a variant that seeds the smaller coefficient whatever the humidity ratio
SeedHMSurfaceLayerDefault(ZoneNum) == 300000

\* the bootstrap HMSurfaceLayer: 0.003 when the zone humidity ratio is 0.0,
\* else 0.0003 (1e-9 m/s)
SeedHMSurfaceLayer(ZoneNum) ==
    IF ZoneAirHumRat[ZoneNum] = 0 THEN 3000000 ELSE 300000

\* an array after the seeding loop has assigned v(SurfNum) to its seeded entries
Seeded(a, v) ==
    [SurfNum \in DOMAIN a |-> IF SeedsSurface(SurfNum) THEN v[SurfNum] ELSE a[SurfNum]]

\* a variant in which every initialization sets the reporting arrays
ResetsReportAlways(initEnvrnFlag) == TRUE

\* the reporting arrays are set only while InitEnvrnFlag is still true
ResetsReport(initEnvrnFlag) == initEnvrnFlag

\* the arrays after InitMoistureBalanceEMPD, from arrays A
InitMoistureBalanceEMPD(A, initEnvrnFlag, uninit) ==
    LET B == IF initEnvrnFlag
             THEN [n \in ArrayNames |-> Allocate(Uninit(uninit, n))]
             ELSE A
        W == [SurfNum \in SurfNums |-> ZoneAirHumRat[Surface[SurfNum].Zone]]
        Rho == [SurfNum \in SurfNums |-> RhoVaporAirIn[SurfNum]]
        HM == [SurfNum \in SurfNums |-> SeedHMSurfaceLayer(Surface[SurfNum].Zone)]
        Zero == [SurfNum \in SurfNums |-> 0]
        S == [B EXCEPT
                !.RVSurfaceOld = Seeded(@, W),
                !.RVSurface = Seeded(@, W),
                !.RVSurfLayer = Seeded(@, Rho),
                !.RVSurfLayerOld = Seeded(@, Rho),
                !.RVDeepLayer = Seeded(@, Rho),
                !.RVdeepOld = Seeded(@, Rho),
                !.RVwall = Seeded(@, Rho),
                !.HMSurfaceLayer = Seeded(@, HM),
                !.MassFluxSurfaceLayer = Seeded(@, Zero),
                !.MassFluxDeepLayer = Seeded(@, Zero),
                !.MassFluxZone = Seeded(@, Zero)]
    IN IF ~ResetsReport(initEnvrnFlag) THEN S
       ELSE [S EXCEPT
                !.RhoVapEMPD = Fill(@, 1500),
                !.WSurfEMPD = Fill(@, 1500),
                !.RHEMPD = Fill(@, 0),
                !.HeatFluxLatent = Fill(@, 0)]

(***************************************************************************)
(* CalcMoistureBalanceEMPD                                                 *)
(***************************************************************************)
\* the locals of a call that returned before the two-layer balance
NoLocals ==
    [hm_surf_layer |-> 0, hm_deep_layer |-> 0, dU_dRH |-> 0, RHaver |-> 0,
     RH_surf_layer_old |-> 0, RH_deep_layer_old |-> 0,
     RH_surf_layer |-> 0, RH_deep_layer |-> 0,
     rv_surf_layer |-> 0, rv_deep_layer |-> 0]

\* a call initializes when the environment begins and the latch is armed
RunsInit(beginEnvrnFlag, oneTimeFlag) == beginEnvrnFlag /\ oneTimeFlag

\* a variant that re-arms the latch but never clears it
OneTimeFlagNeverCleared(beginEnvrnFlag, oneTimeFlag) ==
    IF ~beginEnvrnFlag THEN TRUE ELSE oneTimeFlag

\* OneTimeFlag after the two tests at the head of the call
OneTimeFlagAfter(beginEnvrnFlag, oneTimeFlag) ==
    IF ~beginEnvrnFlag THEN TRUE
    ELSE IF RunsInit(beginEnvrnFlag, oneTimeFlag) THEN FALSE
    ELSE oneTimeFlag

\* a variant without the test of HeatTransSurf
CalcBranchWithoutHeatTransTest(SurfNum) ==
    IF InsideMaterial(SurfNum).EMPDmu <= 0 THEN "inert" ELSE "active"

\* the short-circuit of a call: "notHT", "inert" (EMPDmu <= 0) or "active"
CalcBranch(SurfNum) ==
    IF ~Surface[SurfNum].HeatTransSurf THEN "notHT"
    ELSE IF InsideMaterial(SurfNum).EMPDmu <= 0 THEN "inert"
    ELSE "active"

\* a variant that stores the humidity ratio without converting it
InertRVSurfaceUnconverted(SurfNum, TempZone) ==
    ZoneAirHumRat[Surface[SurfNum].Zone]

\* rv_surface of a surface whose material is not moisture-active
InertRVSurface(SurfNum, TempZone) ==
    PsyRhovFnTdbWPb(TempZone, ZoneAirHumRat[Surface[SurfNum].Zone], OutBaroPress)

\* a variant that adds the flux to the zone to the one it finds stored
CalcActiveAccumulating(A, SurfNum, TempSurfIn) ==
    [arr |-> [A EXCEPT !.MassFluxZone[SurfNum] =
                 XAdd(@, XAdd(1, Flux(50000, A.RVSurfLayer[SurfNum], RhoVaporAirIn[SurfNum])))],
     loc |-> NoLocals]

\* the two-layer balance of a moisture-active surface: the arrays A with the
\* entries of SurfNum advanced, and the locals
CalcActive(A, SurfNum, TempSurfIn) ==
    LET material == InsideMaterial(SurfNum)
        rv_surface == A.RVSurface[SurfNum]
        rv_surface_old == A.RVSurfaceOld[SurfNum]
        h_mass_conv_in_fd == HMassConvInFD[SurfNum]
        rho_vapor_air_in == RhoVaporAirIn[SurfNum]
        rv_surf_layer == A.RVSurfLayer[SurfNum]
        rv_deep_layer == A.RVDeepLayer[SurfNum]
        rv_deep_old == A.RVdeepOld[SurfNum]
        rv_surf_layer_old == A.RVSurfLayerOld[SurfNum]
        Taver == TempSurfIn
        RVaver == XMul(XAdd(rv_surface, rv_surface_old), 5, 10)
        RHaver == XDiv(XMul(RVaver, GasT(Taver), 1), 10 * ExpCurve(Taver), 1)
        EMPDdiffusivity == EMPDdiffusivityFn(material, Taver)
        dU_dRH == SorptionSlope(material, RHaver)
        Rcoating == RcoatingFn(material, Taver)
        hm_surf_layer == HmSurfLayer(material, EMPDdiffusivity, h_mass_conv_in_fd, Rcoating)
        hm_deep_layer == HmDeepLayer(material, EMPDdiffusivity)
        RSurfaceLayer == RSurfaceLayerFn(hm_surf_layer, h_mass_conv_in_fd, Rcoating)
        mass_flux_surf_layer == XAdd(Flux(hm_surf_layer, rv_surf_layer, rho_vapor_air_in),
                                     Flux(hm_deep_layer, rv_surf_layer, rv_deep_layer))
        mass_flux_deep_layer == Flux(hm_deep_layer, rv_surf_layer, rv_deep_layer)
        mass_flux_zone == Flux(hm_surf_layer, rv_surf_layer, rho_vapor_air_in)
        RH_deep_layer_old == PsyRhFnTdbRhov(Taver, rv_deep_old)
        RH_surf_layer_old == PsyRhFnTdbRhov(Taver, rv_surf_layer_old)
        RH_surf_layer == EulerRH(RH_surf_layer_old, XNeg(mass_flux_surf_layer),
                                 material, material.EMPDSurfaceDepth, dU_dRH)
        RH_deep_layer == IF material.EMPDDeepDepth <= 0 THEN RH_deep_layer_old
                         ELSE EulerRH(RH_deep_layer_old, mass_flux_deep_layer,
                                      material, material.EMPDDeepDepth, dU_dRH)
        rv_surf_layer_new == PsyRhovFnTdbRh(Taver, RH_surf_layer)
        rv_deep_layer_new == PsyRhovFnTdbRh(Taver, RH_deep_layer)
        PV_surf_layer == XMul(RH_surf_layer, ExpCurve(Taver), 10000)
        rv_surface_new == XSub(rv_surf_layer_new, XMul(mass_flux_zone, RSurfaceLayer, 100000))
        heat_flux_latent == XMul(mass_flux_zone, Lam \div 1000, 1000)
    IN [arr |-> [A EXCEPT
                    !.HMSurfaceLayer[SurfNum] = hm_surf_layer,
                    !.MassFluxSurfaceLayer[SurfNum] = mass_flux_surf_layer,
                    !.MassFluxDeepLayer[SurfNum] = mass_flux_deep_layer,
                    !.MassFluxZone[SurfNum] = mass_flux_zone,
                    !.RVSurfLayer[SurfNum] = rv_surf_layer_new,
                    !.RVDeepLayer[SurfNum] = rv_deep_layer_new,
                    !.RVSurface[SurfNum] = rv_surface_new,
                    !.HeatFluxLatent[SurfNum] = heat_flux_latent,
                    !.RhoVapEMPD[SurfNum] = rv_surf_layer_new,
                    !.RHEMPD[SurfNum] = XMul(RH_surf_layer, 100, 1),
                    !.WSurfEMPD[SurfNum] = XDiv(XMul(62200, PV_surf_layer, 1),
                                                XSub(OutBaroPress, PV_surf_layer), 1)],
        loc |-> [hm_surf_layer |-> hm_surf_layer, hm_deep_layer |-> hm_deep_layer,
                 dU_dRH |-> dU_dRH, RHaver |-> RHaver,
                 RH_surf_layer_old |-> RH_surf_layer_old,
                 RH_deep_layer_old |-> RH_deep_layer_old,
                 RH_surf_layer |-> RH_surf_layer, RH_deep_layer |-> RH_deep_layer,
                 rv_surf_layer |-> rv_surf_layer, rv_deep_layer |-> rv_deep_layer]]

\* a variant that clears the whole HeatFluxLatent array, not one entry
CalcSurfaceClearingAll(A, SurfNum, TempSurfIn, TempZone) ==
    LET Z == [A EXCEPT !.HeatFluxLatent = [n \in DOMAIN A.HeatFluxLatent |-> 0]]
    IN CASE CalcBranch(SurfNum) = "notHT" -> [arr |-> Z, loc |-> NoLocals]
         [] CalcBranch(SurfNum) = "inert" ->
              [arr |-> [Z EXCEPT !.RVSurface[SurfNum] = InertRVSurface(SurfNum, TempZone)],
               loc |-> NoLocals]
         [] CalcBranch(SurfNum) = "active" -> CalcActive(Z, SurfNum, TempSurfIn)

\* a variant that computes the flux to the zone with the coefficient it finds
CalcSurfaceWithStoredCoefficient(A, SurfNum, TempSurfIn, TempZone) ==
    [arr |-> [A EXCEPT !.HeatFluxLatent[SurfNum] = 0,
                       !.MassFluxZone[SurfNum] =
                           Flux(A.HMSurfaceLayer[SurfNum], A.RVSurfLayer[SurfNum],
                                RhoVaporAirIn[SurfNum])],
     loc |-> NoLocals]

\* a variant that also commits the surface vapor density it computes
CalcSurfaceCommitting(A, SurfNum, TempSurfIn, TempZone) ==
    [arr |-> [A EXCEPT !.HeatFluxLatent[SurfNum] = 0,
                       !.RVSurface[SurfNum] = InertRVSurface(SurfNum, TempZone),
                       !.RVSurfaceOld[SurfNum] = InertRVSurface(SurfNum, TempZone)],
     loc |-> NoLocals]

\* the call after its initialization test, on arrays A
CalcSurface(A, SurfNum, TempSurfIn, TempZone) ==
    LET Z == [A EXCEPT !.HeatFluxLatent[SurfNum] = 0]
    IN CASE CalcBranch(SurfNum) = "notHT" -> [arr |-> Z, loc |-> NoLocals]
         [] CalcBranch(SurfNum) = "inert" ->
              [arr |-> [Z EXCEPT !.RVSurface[SurfNum] = InertRVSurface(SurfNum, TempZone)],
               loc |-> NoLocals]
         [] CalcBranch(SurfNum) = "active" -> CalcActive(Z, SurfNum, TempSurfIn)

(***************************************************************************)
(* UpdateMoistureBalanceEMPD, CloseMoistureBalanceEMPD                     *)
(***************************************************************************)
\* a variant that commits the surface layer into the deep layer's old slot
UpdateArraysCrossed(A, SurfNum) ==
    [A EXCEPT !.RVSurfaceOld[SurfNum] = A.RVSurface[SurfNum],
              !.RVdeepOld[SurfNum] = A.RVSurfLayer[SurfNum],
              !.RVSurfLayerOld[SurfNum] = A.RVSurfLayer[SurfNum]]

UpdateArrays(A, SurfNum) ==
    [A EXCEPT !.RVSurfaceOld[SurfNum] = A.RVSurface[SurfNum],
              !.RVdeepOld[SurfNum] = A.RVDeepLayer[SurfNum],
              !.RVSurfLayerOld[SurfNum] = A.RVSurfLayer[SurfNum]]

\* the arrays CloseMoistureBalanceEMPD deallocates
ClosedArrays ==
    {"RVSurfaceOld", "RVSurface", "HeatFluxLatent", "RVSurfLayer", "RVSurfLayerOld",
     "RVDeepLayer", "RVdeepOld"}

CloseArrays(A) ==
    [n \in ArrayNames |-> IF n \in ClosedArrays THEN Unallocated ELSE A[n]]

(***************************************************************************)
(* The state machine.                                                      *)
(***************************************************************************)
\* the temperatures of the calls of environment n: the inside surface is
\* colder than the zone air, a cold day alternates with a mild one
CallTemps(n) ==
    IF n % 2 = 1 THEN { [TempSurfIn |-> 10, TempZone |-> 20] }
    ELSE { [TempSurfIn |-> 22, TempZone |-> 24] }

Step(op, SurfNum, temps, didInit, firstInit, loc) ==
    [op |-> op, SurfNum |-> SurfNum,
     TempSurfIn |-> temps.TempSurfIn, TempZone |-> temps.TempZone,
     didInit |-> didInit, firstInit |-> firstInit, prevBegin |-> hist.prevBegin,
     pre |-> Arrays, loc |-> loc]

NoTemps == [TempSurfIn |-> 0, TempZone |-> 0]

Init ==
    /\ Surface \in { f \in [SurfNums -> UNION { SurfaceKinds(n) : n \in SurfNums }] :
                       \A n \in SurfNums : f[n] \in SurfaceKinds(n) }
    /\ \E c \in [ZoneNums -> ZoneConditions] :
          /\ ZoneAirHumRat = [ZoneNum \in ZoneNums |-> c[ZoneNum].w]
          /\ RhoVaporAirIn = [SurfNum \in SurfNums |-> c[Surface[SurfNum].Zone].rho]
    /\ BeginEnvrnFlag = FALSE
    /\ RVSurfaceOld = Unallocated /\ RVSurface = Unallocated
    /\ HeatFluxLatent = Unallocated /\ RhoVapEMPD = Unallocated
    /\ WSurfEMPD = Unallocated /\ RHEMPD = Unallocated
    /\ RVSurfLayer = Unallocated /\ RVSurfLayerOld = Unallocated
    /\ RVDeepLayer = Unallocated /\ RVdeepOld = Unallocated /\ RVwall = Unallocated
    /\ HMSurfaceLayer = Unallocated /\ MassFluxSurfaceLayer = Unallocated
    /\ MassFluxDeepLayer = Unallocated /\ MassFluxZone = Unallocated
    /\ InitEnvrnFlag = TRUE
    /\ OneTimeFlag = TRUE
    /\ envNum = 0
    /\ closed = FALSE
    /\ unallocatedAccess = FALSE
    /\ numCalls = 0
    /\ hist = [envCalled |-> FALSE, envInits |-> 0, reportResets |-> 0, prevBegin |-> "none"]
    /\ last = [op |-> "none", SurfNum |-> 0, TempSurfIn |-> 0, TempZone |-> 0,
               didInit |-> FALSE, firstInit |-> FALSE, prevBegin |-> "none",
               pre |-> [n \in ArrayNames |-> Unallocated], loc |-> NoLocals]

\* the host begins a simulation environment
BeginEnvironment ==
    /\ ~closed /\ ~unallocatedAccess /\ numCalls < MaxCalls /\ envNum < MaxEnvs /\ ~BeginEnvrnFlag
    /\ envNum' = envNum + 1
    /\ BeginEnvrnFlag' = TRUE
    /\ hist' = [hist EXCEPT !.envCalled = FALSE, !.envInits = 0]
    /\ last' = Step("Host", 0, NoTemps, FALSE, FALSE, NoLocals)
    /\ UNCHANGED <<Surface, ZoneAirHumRat, RhoVaporAirIn, arrays, InitEnvrnFlag,
                   OneTimeFlag, closed, unallocatedAccess, numCalls>>

\* the host clears BeginEnvrnFlag once the first timestep of the environment,
\* with its calls, is done
EndFirstTimeStep ==
    /\ ~closed /\ ~unallocatedAccess /\ numCalls < MaxCalls /\ BeginEnvrnFlag /\ hist.envCalled
    /\ BeginEnvrnFlag' = FALSE
    /\ last' = Step("Host", 0, NoTemps, FALSE, FALSE, NoLocals)
    /\ UNCHANGED <<Surface, ZoneAirHumRat, RhoVaporAirIn, arrays, InitEnvrnFlag,
                   OneTimeFlag, envNum, closed, unallocatedAccess, numCalls, hist>>

\* the host updates the zone air: the humidity ratio of a zone and the vapor
\* density of the air at the surfaces of that zone
SetZoneConditions(ZoneNum, w, rho) ==
    /\ ~closed /\ ~unallocatedAccess /\ numCalls < MaxCalls /\ envNum >= 1
    /\ ZoneAirHumRat[ZoneNum] # w
       \/ \E SurfNum \in SurfNums :
             Surface[SurfNum].Zone = ZoneNum /\ RhoVaporAirIn[SurfNum] # rho
    /\ ZoneAirHumRat' = [ZoneAirHumRat EXCEPT ![ZoneNum] = w]
    /\ RhoVaporAirIn' = [SurfNum \in SurfNums |->
                            IF Surface[SurfNum].Zone = ZoneNum THEN rho
                            ELSE RhoVaporAirIn[SurfNum]]
    /\ last' = Step("Host", 0, NoTemps, FALSE, FALSE, NoLocals)
    /\ UNCHANGED <<Surface, BeginEnvrnFlag, arrays, InitEnvrnFlag,
                   OneTimeFlag, envNum, closed, unallocatedAccess, numCalls, hist>>

\* The references the call binds at its head index the arrays: when the
\* initialization did not run and the arrays are not allocated the call
\* indexes unallocated arrays.  What the build then does is not defined; the
\* model records the access and ends the run there.
CalcMoistureBalanceEMPD(SurfNum, temps, uninit) ==
    LET doInit == RunsInit(BeginEnvrnFlag, OneTimeFlag)
        A0 == IF doInit THEN InitMoistureBalanceEMPD(Arrays, InitEnvrnFlag, uninit)
              ELSE Arrays
    IN /\ ~closed /\ ~unallocatedAccess /\ numCalls < MaxCalls
       /\ (doInit /\ InitEnvrnFlag) \/ uninit = 0
       /\ IF AllAllocated(A0)
          THEN /\ \E R \in {CalcSurface(A0, SurfNum, temps.TempSurfIn, temps.TempZone)} :
                     /\ SetArrays(R.arr)
                     /\ last' = Step("Calc", SurfNum, temps, doInit,
                                     doInit /\ InitEnvrnFlag, R.loc)
               /\ hist' = [envCalled |-> TRUE,
                           envInits |-> hist.envInits + (IF doInit THEN 1 ELSE 0),
                           reportResets |-> hist.reportResets
                               + (IF doInit /\ ResetsReport(InitEnvrnFlag) THEN 1 ELSE 0),
                           prevBegin |-> IF BeginEnvrnFlag THEN "set" ELSE "clear"]
               /\ UNCHANGED unallocatedAccess
          ELSE /\ unallocatedAccess' = TRUE
               /\ last' = Step("CalcUnallocated", SurfNum, temps, doInit, FALSE, NoLocals)
               /\ UNCHANGED <<arrays, hist>>
       /\ InitEnvrnFlag' = IF doInit THEN FALSE ELSE InitEnvrnFlag
       /\ OneTimeFlag' = OneTimeFlagAfter(BeginEnvrnFlag, OneTimeFlag)
       /\ numCalls' = numCalls + 1
       /\ UNCHANGED <<Surface, ZoneAirHumRat, RhoVaporAirIn, BeginEnvrnFlag, envNum, closed>>

\* UpdateMoistureBalanceEMPD indexes the arrays without any test
UpdateMoistureBalanceEMPD(SurfNum) ==
    /\ ~closed /\ ~unallocatedAccess
    /\ IF AllAllocated(Arrays)
       THEN /\ SetArrays(UpdateArrays(Arrays, SurfNum))
            /\ last' = Step("Update", SurfNum, NoTemps, FALSE, FALSE, NoLocals)
            /\ UNCHANGED unallocatedAccess
       ELSE /\ unallocatedAccess' = TRUE
            /\ last' = Step("UpdateUnallocated", SurfNum, NoTemps, FALSE, FALSE, NoLocals)
            /\ UNCHANGED arrays
    /\ UNCHANGED <<inputs, InitEnvrnFlag, OneTimeFlag, envNum, closed, numCalls, hist>>

CloseMoistureBalanceEMPD ==
    /\ ~closed /\ ~unallocatedAccess /\ envNum >= 1
    /\ SetArrays(CloseArrays(Arrays))
    /\ closed' = TRUE
    /\ last' = Step("Close", 0, NoTemps, FALSE, FALSE, NoLocals)
    /\ UNCHANGED <<inputs, InitEnvrnFlag, OneTimeFlag, envNum, unallocatedAccess,
                   numCalls, hist>>

Next ==
    \/ BeginEnvironment
    \/ EndFirstTimeStep
    \/ \E ZoneNum \in ZoneNums, c \in ZoneConditions : SetZoneConditions(ZoneNum, c.w, c.rho)
    \/ \E SurfNum \in SurfNums, temps \in CallTemps(envNum), uninit \in UninitPatterns :
          CalcMoistureBalanceEMPD(SurfNum, temps, uninit)
    \/ \E SurfNum \in SurfNums : UpdateMoistureBalanceEMPD(SurfNum)
    \/ CloseMoistureBalanceEMPD

Spec == Init /\ [][Next]_vars

(***************************************************************************)
(* Properties.  last describes the call that produced the state, last.pre  *)
(* the arrays before that call.                                            *)
(***************************************************************************)
\* the entries of surface SurfNum in the arrays named, << >> where unallocated
Fields(A, SurfNum, names) ==
    [n \in names |-> IF Allocated(A[n]) THEN << A[n][SurfNum] >> ELSE << >>]

LayerFields ==
    {"RVSurfLayer", "RVDeepLayer", "RVSurfLayerOld", "RVdeepOld", "RVSurfaceOld",
     "MassFluxSurfaceLayer", "MassFluxDeepLayer", "MassFluxZone", "HMSurfaceLayer"}
OldFields == {"RVSurfaceOld", "RVSurfLayerOld", "RVdeepOld"}
MoistureFields == LayerFields \cup {"RVSurface", "HeatFluxLatent"}
ReportFields == {"RhoVapEMPD", "WSurfEMPD", "RHEMPD"}

CalcOn(kind) == last.op = "Calc" /\ CalcBranch(last.SurfNum) = kind

\* the last call was CalcMoistureBalanceEMPD for a surface that is not a
\* heat-transfer surface
CalcOnNotHeatTrans == last.op = "Calc" /\ ~Surface[last.SurfNum].HeatTransSurf

\* the reporting arrays hold their defaults at SurfNum
ReportDefaults(SurfNum) ==
    /\ RhoVapEMPD[SurfNum] = 1500 /\ WSurfEMPD[SurfNum] = 1500
    /\ RHEMPD[SurfNum] = 0 /\ HeatFluxLatent[SurfNum] = 0

\* C1 as claimed: a call for a surface that is not a heat-transfer surface
\* leaves every moisture-state field of that surface as it was before the
\* call.
C1_NotHeatTransNoOp ==
    CalcOnNotHeatTrans =>
        Fields(Arrays, last.SurfNum, MoistureFields)
           = Fields(last.pre, last.SurfNum, MoistureFields)

\* C1 amended: a call for a surface that is not a heat-transfer surface, other
\* than the call that allocates the arrays on first use, leaves every state
\* field of that surface, the reporting fields included, as it was before the
\* call.
C1_NotHeatTransNoOpOnceAllocated ==
    (CalcOnNotHeatTrans /\ ~last.firstInit) =>
        Fields(Arrays, last.SurfNum, ArrayNames) = Fields(last.pre, last.SurfNum, ArrayNames)

\* C1 witness: a call for such a surface that ran the reset of a later
\* environment, re-seeding another surface.
C1_Witness ==
    /\ CalcOnNotHeatTrans /\ last.didInit /\ ~last.firstInit
    /\ \E SurfNum \in SurfNums : Arrays.RVSurfLayer[SurfNum] # last.pre.RVSurfLayer[SurfNum]

\* C2 as claimed: a call for a heat-transfer surface with EMPDmu <= 0 sets
\* RVSurface to PsyRhovFnTdbWPb( TempZone, ZoneAirHumRat( zone ), OutBaroPress )
\* and leaves the layer state of the surface unchanged.
C2_InertSetsSurfaceOnly ==
    CalcOn("inert") =>
        /\ RVSurface[last.SurfNum] =
              PsyRhovFnTdbWPb(last.TempZone, ZoneAirHumRat[Surface[last.SurfNum].Zone],
                              OutBaroPress)
        /\ Fields(Arrays, last.SurfNum, LayerFields) = Fields(last.pre, last.SurfNum, LayerFields)

\* C2 amended: a call for a heat-transfer surface with EMPDmu <= 0 sets
\* RVSurface to the psychrometric conversion; it leaves the layer state of the
\* surface unchanged unless the call runs InitMoistureBalanceEMPD, which
\* re-seeds it.
C2_InertSetsSurfaceOnlyWithoutReset ==
    CalcOn("inert") =>
        /\ RVSurface[last.SurfNum] =
              PsyRhovFnTdbWPb(last.TempZone, ZoneAirHumRat[Surface[last.SurfNum].Zone],
                              OutBaroPress)
        /\ ~last.didInit =>
              Fields(Arrays, last.SurfNum, LayerFields) = Fields(last.pre, last.SurfNum, LayerFields)

\* C2 witness: a call without reset that moved RVSurface of the surface.
C2_Witness ==
    /\ CalcOn("inert") /\ ~last.didInit
    /\ RVSurface[last.SurfNum] # last.pre.RVSurface[last.SurfNum]
    /\ RVSurface[last.SurfNum] # ZoneAirHumRat[Surface[last.SurfNum].Zone]

\* C3: a call that observes BeginEnvrnFlag set, after a call that observed it
\* set, does not run InitMoistureBalanceEMPD: the state of the surfaces it is
\* not called for stays as it was.
C3_NoReseedWhileFlagStays ==
    (last.op = "Calc" /\ last.prevBegin = "set" /\ BeginEnvrnFlag) =>
        /\ ~last.didInit
        /\ \A SurfNum \in SurfNums \ {last.SurfNum} :
              Fields(Arrays, SurfNum, ArrayNames) = Fields(last.pre, SurfNum, ArrayNames)

\* C3 witness: such a second call, made when a re-seed would have changed the
\* state of another surface.
C3_Witness ==
    /\ last.op = "Calc" /\ last.prevBegin = "set" /\ BeginEnvrnFlag
    /\ \E SurfNum \in SurfNums \ {last.SurfNum} :
          /\ Surface[SurfNum].HeatTransSurf
          /\ RVSurfLayer[SurfNum] # RhoVaporAirIn[SurfNum]

\* C4 as claimed: once a call has been made in an environment,
\* InitMoistureBalanceEMPD has run exactly once in that environment.
C4_ResetOncePerEnvironment ==
    last.op = "Calc" => hist.envInits = 1

\* C5 as claimed: the reset of every environment sets the reporting quantities
\* of all surfaces to their defaults (seen at the surfaces the call does not
\* then advance).
C5_ReportResetEveryEnvironment ==
    (last.op = "Calc" /\ last.didInit) =>
        \A SurfNum \in SurfNums \ {last.SurfNum} : ReportDefaults(SurfNum)

\* C5 amended: the reporting quantities are set to their defaults once in a
\* run, by the first InitMoistureBalanceEMPD (which allocates the arrays); the
\* reset of a later environment leaves them as they were.
C5_ReportResetOncePerRun ==
    /\ hist.reportResets = (IF InitEnvrnFlag THEN 0 ELSE 1)
    /\ (last.op = "Calc" /\ last.didInit) =>
          \A SurfNum \in SurfNums \ {last.SurfNum} :
              IF last.firstInit THEN ReportDefaults(SurfNum)
              ELSE Fields(Arrays, SurfNum, ReportFields \cup {"HeatFluxLatent"})
                     = Fields(last.pre, SurfNum, ReportFields \cup {"HeatFluxLatent"})

\* C5 witness: the reset of a later environment, run while another surface
\* reports values that are not the defaults.
C5_Witness ==
    /\ last.op = "Calc" /\ last.didInit /\ ~last.firstInit
    /\ \E SurfNum \in SurfNums \ {last.SurfNum} : ~ReportDefaults(SurfNum)

\* C6 as claimed: a call of CalcMoistureBalanceEMPD leaves RVSurfaceOld,
\* RVSurfLayerOld and RVdeepOld of every surface as they were.
C6_CalcKeepsOldSlots ==
    last.op = "Calc" =>
        \A SurfNum \in SurfNums :
            Fields(Arrays, SurfNum, OldFields) = Fields(last.pre, SurfNum, OldFields)

\* C6 amended: a call of CalcMoistureBalanceEMPD that does not run
\* InitMoistureBalanceEMPD leaves the old slots of every surface as they were;
\* they change only in UpdateMoistureBalanceEMPD and in the re-seeding of
\* InitMoistureBalanceEMPD.
C6_CalcKeepsOldSlotsWithoutReset ==
    (last.op = "Calc" /\ ~last.didInit) =>
        \A SurfNum \in SurfNums :
            Fields(Arrays, SurfNum, OldFields) = Fields(last.pre, SurfNum, OldFields)

\* C6 witness: a call without reset that advanced a moisture-active surface.
C6_Witness ==
    /\ CalcOn("active") /\ ~last.didInit
    /\ RVSurfLayer[last.SurfNum] # last.pre.RVSurfLayer[last.SurfNum]
    /\ RVSurfLayer[last.SurfNum] # RVSurfLayerOld[last.SurfNum]

\* C7: after UpdateMoistureBalanceEMPD( SurfNum ) the old slots of the surface
\* equal its current slots, every other entry is as before, and a commit of
\* slots that are already committed changes nothing.
C7_UpdateCopiesCurrentToOld ==
    last.op = "Update" =>
        /\ RVSurfaceOld[last.SurfNum] = RVSurface[last.SurfNum]
        /\ RVdeepOld[last.SurfNum] = RVDeepLayer[last.SurfNum]
        /\ RVSurfLayerOld[last.SurfNum] = RVSurfLayer[last.SurfNum]
        /\ Fields(Arrays, last.SurfNum, ArrayNames \ OldFields)
              = Fields(last.pre, last.SurfNum, ArrayNames \ OldFields)
        /\ \A SurfNum \in SurfNums \ {last.SurfNum} :
              Fields(Arrays, SurfNum, ArrayNames) = Fields(last.pre, SurfNum, ArrayNames)
        /\ (/\ last.pre.RVSurfaceOld[last.SurfNum] = last.pre.RVSurface[last.SurfNum]
            /\ last.pre.RVdeepOld[last.SurfNum] = last.pre.RVDeepLayer[last.SurfNum]
            /\ last.pre.RVSurfLayerOld[last.SurfNum] = last.pre.RVSurfLayer[last.SurfNum])
           => Arrays = last.pre

\* C7 witness: a commit that changed all three old slots of a surface whose
\* current slots differ from one another.
C7_Witness ==
    /\ last.op = "Update"
    /\ RVSurfaceOld[last.SurfNum] # last.pre.RVSurfaceOld[last.SurfNum]
    /\ RVdeepOld[last.SurfNum] # last.pre.RVdeepOld[last.SurfNum]
    /\ RVSurfLayerOld[last.SurfNum] # last.pre.RVSurfLayerOld[last.SurfNum]
    /\ RVSurface[last.SurfNum] # RVSurfLayer[last.SurfNum]
    /\ RVSurfLayer[last.SurfNum] # RVDeepLayer[last.SurfNum]

\* C8 as claimed: after CloseMoistureBalanceEMPD none of the arrays that
\* InitMoistureBalanceEMPD allocated is still allocated.
C8_CloseReleasesAll ==
    closed => \A n \in ArrayNames : ~Allocated(Arrays[n])

\* C9 as claimed: a call that advances a surface whose material has
\* EMPDDeepDepth <= 0 has hm_deep_layer = 0, stores MassFluxDeepLayer = 0 and,
\* where the call did not re-seed it, leaves RVDeepLayer as it was.
C9_NoDeepLayerNoDeepFlux ==
    (CalcOn("active") /\ InsideMaterial(last.SurfNum).EMPDDeepDepth <= 0) =>
        /\ last.loc.hm_deep_layer = 0
        /\ MassFluxDeepLayer[last.SurfNum] = 0
        /\ ~last.didInit => RVDeepLayer[last.SurfNum] = last.pre.RVDeepLayer[last.SurfNum]

\* C10 as claimed: a call that starts its balance with rv_surf_layer equal to
\* RhoVaporAirIn and to rv_deep_layer stores three zero mass fluxes and leaves
\* the layer humidities at the values derived from the old slots.
C10_ZeroGradientKeepsHumidity ==
    (/\ CalcOn("active")
     /\ last.loc.rv_surf_layer = RhoVaporAirIn[last.SurfNum]
     /\ last.loc.rv_surf_layer = last.loc.rv_deep_layer) =>
        /\ MassFluxSurfaceLayer[last.SurfNum] = 0
        /\ MassFluxDeepLayer[last.SurfNum] = 0
        /\ MassFluxZone[last.SurfNum] = 0
        /\ last.loc.RH_surf_layer = last.loc.RH_surf_layer_old
        /\ last.loc.RH_deep_layer = last.loc.RH_deep_layer_old

\* the balance of the last call read a surface layer wetter than the zone air
SurfaceLayerWetter ==
    /\ last.op = "Calc" /\ Surface[last.SurfNum].HeatTransSurf
    /\ InsideMaterial(last.SurfNum).EMPDmu > 0
    /\ last.loc.hm_surf_layer > 0
    /\ ~IsNaN(last.loc.rv_surf_layer)
    /\ last.loc.rv_surf_layer > RhoVaporAirIn[last.SurfNum]

\* C11 as claimed: a call that finds the surface layer of a moisture-active
\* surface wetter than the zone air (RVSurfLayer > RhoVaporAirIn) stores a
\* negative HeatFluxLatent.
C11_WetterSurfaceNegativeLatentFlux ==
    SurfaceLayerWetter =>
        /\ ~IsNaN(HeatFluxLatent[last.SurfNum])
        /\ HeatFluxLatent[last.SurfNum] < 0

\* C11 amended: a call that finds the surface layer of a moisture-active
\* surface wetter than the zone air stores a positive HeatFluxLatent, the
\* positive mass flux to the zone times Lam; a call that runs the reset finds
\* the surface layer equal to RhoVaporAirIn and stores HeatFluxLatent = 0.
C11_WetterSurfacePositiveLatentFlux ==
    /\ SurfaceLayerWetter =>
          /\ ~IsNaN(HeatFluxLatent[last.SurfNum]) /\ HeatFluxLatent[last.SurfNum] > 0
          /\ ~IsNaN(MassFluxZone[last.SurfNum]) /\ MassFluxZone[last.SurfNum] > 0
          /\ HeatFluxLatent[last.SurfNum] = XMul(MassFluxZone[last.SurfNum], Lam \div 1000, 1000)
    /\ (last.op = "Calc" /\ last.didInit /\ Surface[last.SurfNum].HeatTransSurf) =>
          /\ ~SurfaceLayerWetter
          /\ HeatFluxLatent[last.SurfNum] = 0

\* C11 witness: such a call with a finite flux, on a surface whose layers had
\* moved since the reset.
C11_Witness ==
    /\ SurfaceLayerWetter /\ IsFin(HeatFluxLatent[last.SurfNum])
    /\ IsFin(RVSurfLayer[last.SurfNum])
    /\ last.pre.RVSurfLayer[last.SurfNum] # last.pre.RVSurfLayerOld[last.SurfNum]


\* C12 as claimed: in any sequence of CalcMoistureBalanceEMPD and
\* UpdateMoistureBalanceEMPD calls before CloseMoistureBalanceEMPD, the first
\* call included, no call indexes an array that is not allocated.
C12_AllocatedBeforeAccess ==
    ~closed => ~unallocatedAccess


\* the entries of a heat-transfer surface in arrays A are the seeds of the reset
SeedsAt(A, SurfNum) ==
    /\ A.RVSurface[SurfNum] = ZoneAirHumRat[Surface[SurfNum].Zone]
    /\ A.RVSurfaceOld[SurfNum] = ZoneAirHumRat[Surface[SurfNum].Zone]
    /\ A.RVSurfLayer[SurfNum] = RhoVaporAirIn[SurfNum]
    /\ A.RVSurfLayerOld[SurfNum] = RhoVaporAirIn[SurfNum]
    /\ A.RVDeepLayer[SurfNum] = RhoVaporAirIn[SurfNum]
    /\ A.RVdeepOld[SurfNum] = RhoVaporAirIn[SurfNum]
    /\ A.MassFluxSurfaceLayer[SurfNum] = 0
    /\ A.MassFluxDeepLayer[SurfNum] = 0
    /\ A.MassFluxZone[SurfNum] = 0
    /\ A.HMSurfaceLayer[SurfNum] =
          (IF ZoneAirHumRat[Surface[SurfNum].Zone] = 0 THEN 3000000 ELSE 300000)

\* arrays A hold the seeds for the heat-transfer surface SurfNum, or hold what
\* arrays B held for a surface that is not one (where B had entries)
ResetAt(A, B, SurfNum) ==
    IF Surface[SurfNum].HeatTransSurf THEN SeedsAt(A, SurfNum)
    ELSE AllAllocated(B) =>
            Fields(A, SurfNum, LayerFields \cup {"RVSurface", "RVwall"})
               = Fields(B, SurfNum, LayerFields \cup {"RVSurface", "RVwall"})

\* C13: where a call has run InitMoistureBalanceEMPD, the arrays it returned
\* hold the seeds for every heat-transfer surface (RVSurface = RVSurfaceOld =
\* ZoneAirHumRat of the zone, the four layer slots = RhoVaporAirIn, zero mass
\* fluxes, HMSurfaceLayer 0.003 for a zone humidity ratio of 0 and 0.0003
\* otherwise) and the entries of the other surfaces as they were; the surfaces
\* the call was not for still hold them after the call.
C13_ResetSeedsHeatTransSurfaces ==
    (last.op = "Calc" /\ last.didInit) =>
        /\ \A uninit \in UninitPatterns, SurfNum \in SurfNums :
              ResetAt(InitMoistureBalanceEMPD(last.pre, last.firstInit, uninit),
                      last.pre, SurfNum)
        /\ \A SurfNum \in SurfNums \ {last.SurfNum} : ResetAt(Arrays, last.pre, SurfNum)

\* C13 witness: the reset of a later environment, with a zone humidity ratio
\* of 0, that changed the state of a heat-transfer surface the call was not for.
C13_Witness ==
    /\ last.op = "Calc" /\ last.didInit /\ ~last.firstInit
    /\ \E SurfNum \in SurfNums \ {last.SurfNum} :
          /\ Surface[SurfNum].HeatTransSurf
          /\ ZoneAirHumRat[Surface[SurfNum].Zone] = 0
          /\ HMSurfaceLayer[SurfNum] = 3000000
          /\ last.pre.HMSurfaceLayer[SurfNum] # 3000000
          /\ RVSurfLayer[SurfNum] # last.pre.RVSurfLayer[SurfNum]


\* the arrays after CalcMoistureBalanceEMPD( SurfNum ) on arrays A, in a call
\* that does not run the reset
Advanced(A, SurfNum, temps) ==
    CalcSurface(A, SurfNum, temps.TempSurfIn, temps.TempZone).arr

ActiveSurfaces == { SurfNum \in SurfNums : CalcBranch(SurfNum) = "active" }

\* the other bootstrap value
OtherSeed(hm) == IF hm = 3000000 THEN 300000 ELSE 3000000

\* arrays A with the other bootstrap value in HMSurfaceLayer( SurfNum )
Reseeded(A, SurfNum) ==
    [A EXCEPT !.HMSurfaceLayer[SurfNum] = OtherSeed(A.HMSurfaceLayer[SurfNum])]

\* C15: the HMSurfaceLayer entry a call finds does not influence it.  From two
\* states that differ only in the HMSurfaceLayer entry of a moisture-active
\* surface and in which a call can follow, CalcMoistureBalanceEMPD for that
\* surface gives the same arrays, and UpdateMoistureBalanceEMPD gives arrays
\* that differ in that entry only; the call stores the coefficient it
\* computes over the seeded one.
C15_SeededCoefficientNeverRead ==
    /\ (AllAllocated(Arrays) /\ ~closed /\ numCalls < MaxCalls) =>
          \A SurfNum \in ActiveSurfaces, temps \in CallTemps(envNum) :
              /\ Reseeded(Arrays, SurfNum) # Arrays
              /\ Advanced(Reseeded(Arrays, SurfNum), SurfNum, temps)
                    = Advanced(Arrays, SurfNum, temps)
              /\ UpdateArrays(Reseeded(Arrays, SurfNum), SurfNum)
                    = Reseeded(UpdateArrays(Arrays, SurfNum), SurfNum)
    /\ CalcOn("active") =>
          /\ HMSurfaceLayer[last.SurfNum] = last.loc.hm_surf_layer
          /\ HMSurfaceLayer[last.SurfNum] =
                HmSurfLayer(InsideMaterial(last.SurfNum),
                            EMPDdiffusivityFn(InsideMaterial(last.SurfNum), last.TempSurfIn),
                            HMassConvInFD[last.SurfNum],
                            RcoatingFn(InsideMaterial(last.SurfNum), last.TempSurfIn))

\* C15 witness: a call that ran the reset with the larger bootstrap value and
\* advanced a moisture-active surface, storing the coefficient it computed,
\* while another surface still holds the bootstrap value.
C15_Witness ==
    /\ CalcOn("active") /\ last.didInit
    /\ ~(HMSurfaceLayer[last.SurfNum] \in {300000, 3000000})
    /\ \E SurfNum \in ActiveSurfaces \ {last.SurfNum} :
          /\ HMSurfaceLayer[SurfNum] = 3000000
          /\ ZoneAirHumRat[Surface[SurfNum].Zone] = 0


\* the slots a call both reads and writes
CurrentFields == {"RVSurface", "RVSurfLayer", "RVDeepLayer"}
\* the fields a call only writes
OutputFields == ArrayNames \ (CurrentFields \cup OldFields \cup {"RVwall"})

LastTemps == [TempSurfIn |-> last.TempSurfIn, TempZone |-> last.TempZone]

\* the arrays after CalcMoistureBalanceEMPD is called again, for the same
\* surface with the same inputs, right after the last call
AdvancedAgain == Advanced(Arrays, last.SurfNum, LastTemps)

\* arrays A with the output-only entries of SurfNum cleared
OutputsCleared(A, SurfNum) ==
    [n \in ArrayNames |->
        IF n \in OutputFields THEN [A[n] EXCEPT ![SurfNum] = 0] ELSE A[n]]

\* C16 as claimed, for a call with finite results: calling
\* CalcMoistureBalanceEMPD again for the same moisture-active surface with the
\* same inputs and no UpdateMoistureBalanceEMPD in between leaves the arrays
\* as the first call left them.
C16_SecondCallChangesNothing ==
    (/\ CalcOn("active")
     /\ \A n \in ArrayNames : IsFin(Arrays[n][last.SurfNum])
     /\ \A n \in ArrayNames : IsFin(AdvancedAgain[n][last.SurfNum])) =>
        AdvancedAgain = Arrays

\* C16 amended: a second call without commit leaves the old slots as they
\* are and computes its result from the inputs, the old slots and the current
\* RVSurface, RVSurfLayer and RVDeepLayer, which the first call wrote; it
\* leaves the arrays as the first call left them when the first call had left
\* these three slots as it found them.
C16_SecondCallFromCurrentSlots ==
    CalcOn("active") =>
        /\ Fields(AdvancedAgain, last.SurfNum, OldFields)
              = Fields(Arrays, last.SurfNum, OldFields)
        /\ Advanced(OutputsCleared(Arrays, last.SurfNum), last.SurfNum, LastTemps)
              = AdvancedAgain
        /\ (/\ ~last.didInit
            /\ Fields(Arrays, last.SurfNum, CurrentFields)
                  = Fields(last.pre, last.SurfNum, CurrentFields))
           => AdvancedAgain = Arrays

\* C16 witness: a call that left the three current slots of a moisture-active
\* surface as it found them, with finite values that are not the seeds of
\* RVSurface.
C16_Witness ==
    /\ CalcOn("active") /\ ~last.didInit
    /\ Fields(Arrays, last.SurfNum, CurrentFields)
          = Fields(last.pre, last.SurfNum, CurrentFields)
    /\ \A n \in ArrayNames : IsFin(Arrays[n][last.SurfNum])
    /\ RVSurface[last.SurfNum] # RVSurfaceOld[last.SurfNum]


====
